---- MODULE Spec2Model ----
(***************************************************************************)
(* Model of gazelle/parse.go: ParseJS (the import extractor), the literal  *)
(* unquoter unquoteImportString, and the pattern jsImportPattern.          *)
(*                                                                         *)
(* A byte is its ASCII code, a []byte or string a sequence of bytes.  A    *)
(* source file is a sequence of lines; a line is the fixed keyword text of *)
(* one alternative of the pattern ("import ", "require(", "export ",       *)
(* "jest.mock(", "jest.requireActual(", "require.resolve(",                *)
(* "jest.createMockFromModule("), named by its capture index, followed by  *)
(* the bytes of the rest of the line (the tail).  Only tail bytes are ever *)
(* captured, so only they can be read or written through a match.  A line   *)
(* starts with its keyword (no leading blanks, no `const x = `, no `from`  *)
(* clause), and a tail holds no line break, so a match lies on one line    *)
(* and the alternative that can match is the one of the line's keyword.    *)
(* bytes, strconv, strings, sort and regexp are modelled as Go defines     *)
(* them: leftmost-first matching with greedy repetition, bytes.Split       *)
(* pieces capped at their length, strconv.Unquote's escape rules.          *)
(***************************************************************************)
EXTENDS Integers, Sequences, FiniteSets, TLC

VARIABLES
    data,      \* the caller's buffer handed to ParseJS (lines 28, 32)
    source,    \* the file as it was read, before any call
    calls,     \* number of ParseJS calls completed on the buffer
    ret,       \* what the last ParseJS call returned
    quoted,    \* the caller's slice handed to unquoteImportString (line 92)
    raw,       \* that slice as it was before the call
    unquoted   \* what unquoteImportString returned

vars == <<data, source, calls, ret, quoted, raw, unquoted>>

----------------------------------------------------------------------------
\* Bytes the code names.
SQ == 39
DQ == 34
BS == 92
COMMA == 44
RPAREN == 41
NL == 10

\* Capture indices (parse.go 117-125).
IMPORT == 1
REQUIRE == 2
EXPORT == 3
JEST_MOCK == 4
JEST_REQUIRE_ACTUAL == 5
REQUIRE_RESOLVE == 6
JEST_CREATE_MOCK_FROM_MODULE == 7

Kinds == IMPORT..JEST_CREATE_MOCK_FROM_MODULE

\* Bounds of the model.
MaxTail == 5
MaxLines == 3
MaxBody == 4
MaxCalls == 2

SeqsUpTo(S, n) == UNION {[1..k -> S] : k \in 0..n}

----------------------------------------------------------------------------
\* strconv.Unquote, called at line 110.

\* The single-letter escapes of strconv.UnquoteChar: a b f n r t v.
SimpleEscape ==
    (97 :> 7) @@ (98 :> 8) @@ (102 :> 12) @@ (110 :> 10) @@
    (114 :> 13) @@ (116 :> 9) @@ (118 :> 11)

SyntaxErr == [ok |-> FALSE, out |-> <<>>, rem |-> <<>>]

\* strconv.UnquoteChar(s, quote) on a non-empty s: the first character or
\* escape sequence of s.  Numeric escapes (\x, \u, \U, octal) start with a
\* byte outside every alphabet drawn here.
UnquoteChar(s, quote) ==
    LET c == s[1] IN
    IF c = quote /\ quote \in {SQ, DQ} THEN SyntaxErr
    ELSE IF c # BS THEN [ok |-> TRUE, out |-> <<c>>, rem |-> Tail(s)]
    ELSE IF Len(s) <= 1 THEN SyntaxErr
    ELSE LET e == s[2]
             rest == SubSeq(s, 3, Len(s))
         IN  IF e \in DOMAIN SimpleEscape
                 THEN [ok |-> TRUE, out |-> <<SimpleEscape[e]>>, rem |-> rest]
             ELSE IF e = BS
                 THEN [ok |-> TRUE, out |-> <<BS>>, rem |-> rest]
             ELSE IF e \in {SQ, DQ}
                 THEN IF e # quote THEN SyntaxErr
                      ELSE [ok |-> TRUE, out |-> <<e>>, rem |-> rest]
             ELSE SyntaxErr

\* The character loop of strconv.Unquote after the opening quote: decode up
\* to the first unescaped quote, which it consumes; rem is what follows it.
RECURSIVE ScanQuoted(_, _, _)
ScanQuoted(in, quote, buf) ==
    IF Len(in) = 0 THEN SyntaxErr
    ELSE IF in[1] = quote THEN [ok |-> TRUE, out |-> buf, rem |-> Tail(in)]
    ELSE IF in[1] = NL THEN SyntaxErr
    ELSE LET c == UnquoteChar(in, quote) IN
         IF ~c.ok THEN SyntaxErr
         ELSE IF quote = SQ /\ Len(buf) >= 1 THEN SyntaxErr
         ELSE ScanQuoted(c.rem, quote, buf \o c.out)

\* strconv.Unquote(s): s must be one whole quoted literal.  A raw string
\* starts with a backquote, a byte outside every alphabet drawn here.
Unquote(s) ==
    IF Len(s) < 2 THEN SyntaxErr
    ELSE IF s[1] \in {SQ, DQ} THEN
        LET r == ScanQuoted(Tail(s), s[1], <<>>) IN
        IF r.ok /\ Len(r.rem) = 0 THEN r ELSE SyntaxErr
    ELSE SyntaxErr

----------------------------------------------------------------------------
\* unquoteImportString (parse.go 92-115).

\* bytes.Index(s, {sep}) + 1, or 0 when sep is not in s.
Index(s, sep) ==
    IF \E i \in 1..Len(s) : s[i] = sep
        THEN CHOOSE i \in 1..Len(s) :
                 s[i] = sep /\ \A j \in 1..(i - 1) : s[j] # sep
        ELSE 0

\* bytes.Split(s, {sep}) (line 95).
RECURSIVE Split(_, _)
Split(s, sep) ==
    LET m == Index(s, sep) IN
    IF m = 0 THEN <<s>>
    ELSE <<SubSeq(s, 1, m - 1)>> \o Split(SubSeq(s, m + 1, Len(s)), sep)

\* bytes.Join(pieces, {sep}) (line 102).
RECURSIVE Join(_, _)
Join(pieces, sep) ==
    IF Len(pieces) = 0 THEN <<>>
    ELSE IF Len(pieces) = 1 THEN pieces[1]
    ELSE pieces[1] \o <<sep>> \o Join(Tail(pieces), sep)

\* The loop of lines 97-101: a backslash is appended to every piece but the
\* last that is empty or does not end in one.  bytes.Split caps each such
\* piece at its length, so the append copies and writes nothing shared.
Escape(noQuotes) ==
    [i \in 1..Len(noQuotes) |->
        IF i < Len(noQuotes)
           /\ (Len(noQuotes[i]) = 0 \/ noQuotes[i][Len(noQuotes[i])] # BS)
            THEN Append(noQuotes[i], BS)
            ELSE noQuotes[i]]

\* Lines 95-104: buf is `quoted` after the block, shared tells whether it is
\* still the caller's slice (TRUE) or a fresh buffer (FALSE).
Adjust(q) ==
    LET noQuotes == Split(SubSeq(q, 2, Len(q) - 1), DQ) IN
    IF Len(noQuotes) # 1
        THEN [buf |-> <<DQ>> \o Join(Escape(noQuotes), DQ) \o <<DQ>>,
              shared |-> FALSE]
        ELSE [buf |-> q, shared |-> TRUE]

\* A rewrite that forgets the closing delimiter.
RewriteFirstOnly(buf) ==
    IF buf[1] = SQ THEN [buf EXCEPT ![1] = DQ] ELSE buf

\* Lines 105-108: a single-quoted buffer gets double quotes, in place.
RewriteDelimiters(buf) ==
    IF buf[1] = SQ THEN [buf EXCEPT ![1] = DQ, ![Len(buf)] = DQ] ELSE buf

\* The whole function.  result, ok: the returned (string, error);
\* quoted: the local `quoted` at line 110 (the text of the error of line
\* 112); arg: the bytes of the caller's slice once the call has returned.
unquoteImportString(q) ==
    LET a == Adjust(q)
        b == RewriteDelimiters(a.buf)
        u == Unquote(b)
    IN  [ok |-> u.ok,
         result |-> IF u.ok THEN u.out ELSE <<>>,
         quoted |-> b,
         arg |-> IF a.shared THEN b ELSE q]

----------------------------------------------------------------------------
\* jsImportPattern (parse.go 127-141) on the lines of a file.

Max(S) == CHOOSE x \in S : \A y \in S : y <= x

\* stringLiteralPattern (line 131) at position p of tail t, when the pattern
\* goes on with `\)` (needParen) or not: a quote, a greedy run of any bytes of the line, the
\* same quote.  Greedy `.+` makes the closing quote the last one on the line
\* after which the rest of the alternative still matches.  0: no match.
LiteralEnd(t, p, needParen) ==
    IF p > Len(t) \/ t[p] \notin {SQ, DQ} THEN 0
    ELSE LET ends == {j \in (p + 1)..Len(t) :
                        /\ t[j] = t[p]
                        /\ needParen => (j < Len(t) /\ t[j + 1] = RPAREN)}
         IN  IF ends = {} THEN 0 ELSE Max(ends)

\* `,*` after position e.
RECURSIVE SkipCommas(_, _)
SkipCommas(t, e) ==
    IF e < Len(t) /\ t[e + 1] = COMMA THEN SkipCommas(t, e + 1) ELSE e

\* One iteration of the jestMock group (line 135) at p: the single-quoted
\* alternative, or the double-quoted one with its `,*` inside the group.
MockIterEnd(t, p) ==
    LET e == LiteralEnd(t, p, FALSE) IN
    IF e = 0 THEN 0
    ELSE IF t[p] = SQ THEN e
    ELSE SkipCommas(t, e)

\* The starred group of line 135: the submatch is the last iteration's span
\* (lo = 0: the group matched no time and the submatch is nil).
RECURSIVE MockGroup(_, _, _, _)
MockGroup(t, p, lo, hi) ==
    LET e == MockIterEnd(t, p) IN
    IF e = 0 THEN [lo |-> lo, hi |-> hi]
    ELSE MockGroup(t, e + 1, p, e)

NoCapture == 0

\* The match of the pattern on one line, if any: which submatch is set
\* (NoCapture: none) and its span in the tail.
LineMatch(line) ==
    LET t == line.tail
        k == line.kind
    IN  IF k = JEST_MOCK THEN
            LET g == MockGroup(t, 1, 0, 0) IN
            [matched |-> TRUE,
             kind |-> IF g.lo = 0 THEN NoCapture ELSE JEST_MOCK,
             lo |-> g.lo, hi |-> g.hi]
        ELSE
            LET e == LiteralEnd(t, 1,
                         k \in {REQUIRE, REQUIRE_RESOLVE,
                                JEST_CREATE_MOCK_FROM_MODULE})
            IN  [matched |-> e # 0, kind |-> k, lo |-> 1, hi |-> e]

\* jsImportPattern.FindAllSubmatch(data, -1) (line 32): the matches in scan
\* order, each with the line its submatch lies on.
RECURSIVE FindFrom(_, _)
FindFrom(d, n) ==
    IF n > Len(d) THEN <<>>
    ELSE LET m == LineMatch(d[n]) IN
         (IF m.matched
             THEN <<[kind |-> m.kind, line |-> n, lo |-> m.lo, hi |-> m.hi]>>
             ELSE <<>>) \o FindFrom(d, n + 1)

FindAllSubmatch(d) == FindFrom(d, 1)

----------------------------------------------------------------------------
\* ParseJS (parse.go 28-88).

\* match[K]: the submatch is a slice of the buffer, read where it is used.
Capture(d, m) == SubSeq(d[m.line].tail, m.lo, m.hi)

\* The buffer after the bytes of match[K] became b (same length).
Store(d, m, b) ==
    [d EXCEPT ![m.line].tail =
        [i \in 1..Len(@) |->
            IF m.lo <= i /\ i <= m.hi THEN b[i - m.lo + 1] ELSE @[i]]]

\* strings.ToLower on ASCII.
ToLower(s) == [i \in 1..Len(s) |-> IF s[i] \in 65..90 THEN s[i] + 32 ELSE s[i]]

\* a < b for strings: byte-wise lexicographic.
RECURSIVE Less(_, _)
Less(a, b) ==
    IF Len(b) = 0 THEN FALSE
    ELSE IF Len(a) = 0 THEN TRUE
    ELSE IF a[1] # b[1] THEN a[1] < b[1]
    ELSE Less(Tail(a), Tail(b))

RECURSIVE Insert(_, _)
Insert(x, s) ==
    IF Len(s) = 0 THEN <<x>>
    ELSE IF Less(x, s[1]) THEN <<x>> \o s
    ELSE <<s[1]>> \o Insert(x, Tail(s))

RECURSIVE SortedOf(_)
SortedOf(s) == IF Len(s) = 0 THEN <<>> ELSE Insert(s[1], SortedOf(Tail(s)))

\* The collected values left in scan order.
Unsorted(s) == s

\* sort.Strings(imports) (line 85).
SortStrings(s) == SortedOf(s)

\* What each case of the switch appends (lines 39, 46, 53, 60, 67, 73, 79).
Stored(kind, u) ==
    CASE kind = IMPORT -> u
      [] kind = REQUIRE -> ToLower(u)
      [] kind = EXPORT -> ToLower(u)
      [] kind = JEST_MOCK -> ToLower(u)
      [] kind = JEST_REQUIRE_ACTUAL -> ToLower(u)
      [] kind = REQUIRE_RESOLVE -> ToLower(u)
      [] kind = JEST_CREATE_MOCK_FROM_MODULE -> ToLower(u)

\* The return of lines 37, 44, ...: nil and the error, whose text holds
\* match[K] as it reads when the message is formatted (literal) and the
\* unquoter's own message with its local `quoted` (inner).
ErrReturn(d, lit, inner) ==
    [err |-> TRUE, isNil |-> TRUE, imports |-> <<>>,
     literal |-> lit, inner |-> inner, data |-> d]

\* The return of line 87.
OkReturn(d, imports) ==
    [err |-> FALSE, isNil |-> FALSE, imports |-> SortStrings(imports),
     literal |-> <<>>, inner |-> <<>>, data |-> d]

\* The variant of the loop that skips a literal it cannot unquote.
RECURSIVE LoopSkipBad(_, _, _, _)
LoopSkipBad(ms, i, d, imports) ==
    IF i > Len(ms) THEN OkReturn(d, imports)
    ELSE LET m == ms[i] IN
         IF m.kind = NoCapture THEN LoopSkipBad(ms, i + 1, d, imports)
         ELSE LET u == unquoteImportString(Capture(d, m))
                  d2 == Store(d, m, u.arg)
              IN  IF ~u.ok
                      THEN LoopSkipBad(ms, i + 1, d2, imports)
                      ELSE LoopSkipBad(ms, i + 1, d2,
                               Append(imports, Stored(m.kind, u.result)))

\* The for loop of lines 32-84 from match i on, then lines 85-87.  d is the
\* buffer, written through the submatch slices by the unquoter.
RECURSIVE Loop(_, _, _, _)
Loop(ms, i, d, imports) ==
    IF i > Len(ms) THEN OkReturn(d, imports)
    ELSE LET m == ms[i] IN
         IF m.kind = NoCapture THEN Loop(ms, i + 1, d, imports)
         ELSE LET u == unquoteImportString(Capture(d, m))
                  d2 == Store(d, m, u.arg)
              IN  IF ~u.ok
                      THEN ErrReturn(d2, Capture(d2, m), u.quoted)
                      ELSE Loop(ms, i + 1, d2,
                               Append(imports, Stored(m.kind, u.result)))

ParseJS(d) == Loop(FindAllSubmatch(d), 1, d, <<>>)

----------------------------------------------------------------------------
\* Inputs.

\* Bytes of a tail: ' " \ X , )
TailBytes == {SQ, DQ, BS, 88, COMMA, RPAREN}
Tails == SeqsUpTo(TailBytes, MaxTail)

\* Files of at most one line, any tail.
OneLineFiles ==
    {<<>>} \cup {<<[kind |-> k, tail |-> t]>> : k \in Kinds, t \in Tails}

\* Lines of longer files: under each keyword the tail 'X') (a good literal)
\* and '\') (one the unquoter rejects), and the line jest.mock(X) (a match
\* with no submatch).
SampleTails == { <<SQ, 88, SQ, RPAREN>>, <<SQ, BS, SQ, RPAREN>> }
SampleLines ==
    {[kind |-> k, tail |-> t] : k \in Kinds, t \in SampleTails}
        \cup {[kind |-> JEST_MOCK, tail |-> <<88, RPAREN>>]}
SampleFiles == SeqsUpTo(SampleLines, MaxLines)

\* Bytes of a literal's body: ' " \ X n
BodyBytes == {SQ, DQ, BS, 88, 110}
Bodies == SeqsUpTo(BodyBytes, MaxBody)
Wrap(q, body) == <<q>> \o body \o <<q>>
\* What the pattern can capture: a delimited literal, and for jest.mock a
\* double-quoted one with a comma behind it.
Captures ==
    {Wrap(q, b) : q \in {SQ, DQ}, b \in Bodies}
        \cup {Wrap(DQ, b) \o <<COMMA>> : b \in Bodies}

NoReturn == [err |-> FALSE, isNil |-> TRUE, imports |-> <<>>,
             literal |-> <<>>, inner |-> <<>>]
NotCalled == [ok |-> FALSE, result |-> <<>>, quoted |-> <<>>, called |-> FALSE]

----------------------------------------------------------------------------
\* The caller of ParseJS.

InitWith(files) ==
    /\ data \in files
    /\ source = data
    /\ calls = 0
    /\ ret = NoReturn
    /\ quoted = <<>>
    /\ raw = <<>>
    /\ unquoted = NotCalled

Init == InitWith(OneLineFiles)
InitFile == InitWith(SampleFiles)

\* One call of ParseJS on the buffer.
ParseJSCall ==
    /\ calls < MaxCalls
    /\ LET r == ParseJS(data) IN
        /\ data' = r.data
        /\ ret' = [err |-> r.err, isNil |-> r.isNil, imports |-> r.imports,
                   literal |-> r.literal, inner |-> r.inner]
    /\ calls' = calls + 1
    /\ UNCHANGED <<source, quoted, raw, unquoted>>

Next == ParseJSCall

Spec == Init /\ [][Next]_vars
SpecFile == InitFile /\ [][Next]_vars

\* The caller of unquoteImportString.
InitUnquote ==
    /\ quoted \in Captures
    /\ raw = quoted
    /\ unquoted = NotCalled
    /\ data = <<>>
    /\ source = <<>>
    /\ calls = 0
    /\ ret = NoReturn

UnquoteCall ==
    /\ ~unquoted.called
    /\ LET u == unquoteImportString(quoted) IN
        /\ unquoted' = [ok |-> u.ok, result |-> u.result,
                        quoted |-> u.quoted, called |-> TRUE]
        /\ quoted' = u.arg
    /\ UNCHANGED <<data, source, calls, ret, raw>>

NextUnquote == UnquoteCall

SpecUnquote == InitUnquote /\ [][NextUnquote]_vars

----------------------------------------------------------------------------
\* Properties.  Those of ParseJS are stated of the first call on a file, of
\* which `source` is the text and `data` the buffer after the call.

Range(s) == {s[i] : i \in 1..Len(s)}

\* The multiset of the elements of a sequence.
BagOf(s) == [x \in Range(s) |-> Cardinality({i \in 1..Len(s) : s[i] = x})]

Min(S) == CHOOSE x \in S : \A y \in S : x <= y

\* a <= b in byte-wise (ordinal) order.
ByteLE(a, b) ==
    \E k \in 0..Len(a) :
        /\ k <= Len(b)
        /\ \A i \in 1..k : a[i] = b[i]
        /\ (k = Len(a) \/ (k < Len(b) /\ a[k + 1] < b[k + 1]))

\* The matches of the file in scan order, those that carry a capture, what
\* the unquoter makes of each capture, and the captures it rejects.
Found == FindAllSubmatch(source)
Capturing == SelectSeq(Found, LAMBDA m : m.kind # NoCapture)
Decoded(m) == unquoteImportString(Capture(source, m))
Rejected == {i \in 1..Len(Capturing) : ~Decoded(Capturing[i]).ok}

BodyOf(lit) == SubSeq(lit, 2, Len(lit) - 1)
Plain(s) == \A i \in 1..Len(s) : s[i] \notin {SQ, DQ, BS}
NoQuote(s) == \A i \in 1..Len(s) : s[i] \notin {SQ, DQ}

\* The case rule as the specification words it.
ClaimedStored(kind, u) == IF kind \in {IMPORT, EXPORT} THEN u ELSE ToLower(u)

\* C1: every stored value is the unquoted literal in its original case for
\* StaticImport and StaticExport, and lower-cased for the other five kinds.
C1_CaseByKind ==
    (calls = 1 /\ ~ret.err) =>
        BagOf(ret.imports) =
            BagOf([i \in 1..Len(Capturing) |->
                ClaimedStored(Capturing[i].kind, Decoded(Capturing[i]).result)])

\* C2: if the unquote of any capturing match fails, ParseJS returns an error
\* and nil, whatever was collected before, and no later match is processed
\* (the lines after the failing one are as they were); if none fails it
\* returns no error.
C2_FailFast ==
    calls = 1 =>
        IF Rejected # {}
            THEN /\ ret.err
                 /\ ret.isNil
                 /\ ret.imports = <<>>
                 /\ \A n \in (Capturing[Min(Rejected)].line + 1)..Len(source) :
                        data[n] = source[n]
            ELSE ~ret.err /\ ~ret.isNil

\* A call that failed on its second capture, after it processed the first
\* and before it touched the third, a single-quoted literal.
C2_Witness ==
    /\ calls = 1
    /\ ret.err
    /\ Len(Capturing) = 3
    /\ Min(Rejected) = 2
    /\ data[Capturing[1].line] # source[Capturing[1].line]
    /\ Capture(data, Capturing[3]) = <<SQ, 88, SQ>>

\* The values the calls of the unquoter produce, in scan order.
Produced ==
    [i \in 1..Len(Capturing) |->
        Stored(Capturing[i].kind, Decoded(Capturing[i]).result)]

\* C3: on success the returned sequence is in ascending byte-wise order and
\* is a permutation of the values produced in scan order, one per capturing
\* match, duplicates kept.
C3_SortedPermutation ==
    (calls = 1 /\ ~ret.err) =>
        /\ \A i \in 1..(Len(ret.imports) - 1) :
               ByteLE(ret.imports[i], ret.imports[i + 1])
        /\ Len(ret.imports) = Len(Capturing)
        /\ BagOf(ret.imports) = BagOf(Produced)

\* A successful call that returned three values, two of them equal, in an
\* order other than the scan's.
C3_Witness ==
    /\ calls = 1
    /\ ~ret.err
    /\ Len(ret.imports) = 3
    /\ ret.imports # Produced
    /\ ret.imports[2] = ret.imports[3]

\* C4: after any call every byte of the caller's buffer is what it was.
C4_InputUnchanged == data = source

\* A body of plain bytes and escaped occurrences of the delimiter q, and
\* the same body with each escaped quote bare.
RECURSIVE EscapesOwnQuote(_, _)
EscapesOwnQuote(body, q) ==
    IF Len(body) = 0 THEN TRUE
    ELSE IF body[1] = BS
        THEN /\ Len(body) >= 2
             /\ body[2] = q
             /\ EscapesOwnQuote(SubSeq(body, 3, Len(body)), q)
        ELSE body[1] \notin {SQ, DQ} /\ EscapesOwnQuote(Tail(body), q)
RECURSIVE BareQuotes(_)
BareQuotes(body) ==
    IF Len(body) = 0 THEN <<>>
    ELSE IF body[1] = BS
        THEN <<body[2]>> \o BareQuotes(SubSeq(body, 3, Len(body)))
        ELSE <<body[1]>> \o BareQuotes(Tail(body))

\* C5: a literal whose body holds backslash-escaped occurrences of its own
\* delimiter (and otherwise plain bytes) unquotes, to the body with each
\* escaped quote replaced by the bare quote.
C5_EscapedDelimiter ==
    unquoted.called =>
        \A q \in {SQ, DQ} :
            (/\ raw = Wrap(q, BodyOf(raw))
             /\ BS \in Range(BodyOf(raw))
             /\ EscapesOwnQuote(BodyOf(raw), q))
                => /\ unquoted.ok
                   /\ unquoted.result = BareQuotes(BodyOf(raw))

\* C6: for jest.mock(<literal>, <second argument>) with a plain literal,
\* the capture is the literal from quote to quote and ParseJS returns
\* exactly the (lower-cased) body of the literal.
C6_MockSecondArgument ==
    (calls = 1 /\ Len(source) = 1 /\ source[1].kind = JEST_MOCK) =>
        LET t == source[1].tail IN
        \A n \in 0..(Len(t) - 4) :
            LET lit == SubSeq(t, 1, n + 2)
                rest == SubSeq(t, n + 4, Len(t))
            IN  (/\ t[1] \in {SQ, DQ}
                 /\ lit = Wrap(t[1], BodyOf(lit))
                 /\ Plain(BodyOf(lit))
                 /\ t[n + 3] = COMMA
                 /\ Plain(rest)
                 /\ COMMA \notin Range(rest)
                 /\ 88 \in Range(rest))
                    => /\ Capture(source, Found[1]) = lit
                       /\ ~ret.err
                       /\ ret.imports = <<ToLower(BodyOf(lit))>>

OtherQuote(q) == IF q = SQ THEN DQ ELSE SQ

\* C7: for a body with neither quote character, the unquoter's outcome on
\* the body in single quotes and on the body in double quotes is the same
\* (same value, or failure in both); a body with no backslash either yields
\* the body itself.
C7_QuoteStyle ==
    unquoted.called =>
        \A q \in {SQ, DQ} :
            (raw = Wrap(q, BodyOf(raw)) /\ NoQuote(BodyOf(raw))) =>
                LET o == unquoteImportString(Wrap(OtherQuote(q), BodyOf(raw)))
                IN  /\ unquoted.ok = o.ok
                    /\ unquoted.result = o.result
                    /\ Plain(BodyOf(raw)) =>
                           (unquoted.ok /\ unquoted.result = BodyOf(raw))

\* A single-quoted literal with an escape and no quote in its body, unquoted
\* with success.
C7_Witness ==
    /\ unquoted.called
    /\ unquoted.ok
    /\ raw = Wrap(SQ, BodyOf(raw))
    /\ NoQuote(BodyOf(raw))
    /\ BS \in Range(BodyOf(raw))
    /\ Len(BodyOf(raw)) >= 3

\* C8: the error of a failed call carries the offending literal as it
\* stands in the source, quotes and body.
C8_ErrorCarriesRaw ==
    (calls = 1 /\ ret.err /\ Rejected # {}) =>
        LET lit == Capture(source, Capturing[Min(Rejected)])
        IN  ret.literal = lit \/ ret.inner = lit

\* A single-quoted body of plain bytes, double quotes and the escapes
\* \\ \" \n, and the string it denotes.
RECURSIVE ValidEscapes(_)
ValidEscapes(body) ==
    IF Len(body) = 0 THEN TRUE
    ELSE IF body[1] = BS
        THEN /\ Len(body) >= 2
             /\ body[2] \in {BS, DQ, 110}
             /\ ValidEscapes(SubSeq(body, 3, Len(body)))
        ELSE body[1] # SQ /\ ValidEscapes(Tail(body))
RECURSIVE ValueOf(_)
ValueOf(body) ==
    IF Len(body) = 0 THEN <<>>
    ELSE IF body[1] = BS
        THEN <<IF body[2] = 110 THEN NL ELSE body[2]>>
                 \o ValueOf(SubSeq(body, 3, Len(body)))
        ELSE <<body[1]>> \o ValueOf(Tail(body))

\* C9: a single-quoted literal whose body holds double quotes, and
\* otherwise plain bytes and the escapes \\ \" \n, unquotes to the value of
\* the body, every double quote kept, also when a piece ends in an escaped
\* backslash.
C9_SplitReescape ==
    (/\ unquoted.called
     /\ raw = Wrap(SQ, BodyOf(raw))
     /\ DQ \in Range(BodyOf(raw))
     /\ ValidEscapes(BodyOf(raw)))
        => /\ unquoted.ok
           /\ unquoted.result = ValueOf(BodyOf(raw))

\* C10: a second call on the same buffer returns what the first returned:
\* the same sequence, or an error both times.
C10_Repeatable ==
    [][calls = 1 => (ret'.err = ret.err /\ ret'.imports = ret.imports)]_vars

====
